---------------------------- MODULE Spec2Model ----------------------------
(***************************************************************************)
(* A model of FileToHeaderConverter (Src/Main.cpp): one invocation of the  *)
(* command-line program, from main's argument dispatch through the two     *)
(* encoders ProcessHex and ProcessString, down to the bytes written to the *)
(* output file.                                                            *)
(*                                                                         *)
(* Conventions.                                                            *)
(*  - A C string is the sequence of its character codes (1..255), the      *)
(*    terminating NUL left implicit; CharAt reads the NUL past the end.    *)
(*  - argv is the full argument vector: argv[1] here is argv[0] in C (the  *)
(*    program name), Arg(k) is C's argv[k], argc is Len(argv).             *)
(*  - The file system is a map from path strings to contents; two          *)
(*    different path strings name two different files.  A path outside     *)
(*    FsPaths can be opened neither for reading nor for writing.           *)
(*  - A write reaches the file when it is made (stream buffering is not    *)
(*    modelled; every stream is closed before the process exits).          *)
(*  - std::endl is the single character LF (text mode on a POSIX system).  *)
(***************************************************************************)
EXTENDS Integers, Sequences, FiniteSets

VARIABLES
    argv,           \* the argument vector, program name first
    files,          \* path -> content of the file, or NoFile
    writable,       \* the paths an ofstream can open (create or truncate)
    files0,         \* the file system at process start (history)
    pc,             \* position in main / ProcessHex / ProcessString
    mode,           \* "none", "hex" (ProcessHex) or "string" (ProcessString)
    handles,        \* the open file handles, in the order they were opened
    inPos,          \* read offset of inputFileStream
    count,          \* ProcessHex: int count
    isFirstElement, \* ProcessHex: bool isFirstElement
    stdout,         \* lines written to std::cout
    stderr,         \* lines written to std::cerr
    exitCode,       \* the process exit code, Running until main returns
    trace           \* the file-level steps the encoder has taken (history)

vars == <<argv, files, writable, files0, pc, mode, handles, inPos, count,
          isFirstElement, stdout, stderr, exitCode, trace>>

\* The content of a file that does not exist (no byte is negative).
NoFile == <<-1>>
\* The exit code while main has not returned.
Running == -1

---------------------------------------------------------------------------
(* Characters and string literals of the source.                           *)

NUL == 0
LF == 10
Slash == 47
Underscore == 95

\* char is signed on the modelled platform: codes above 127 are negative.
SChar(c) == IF c > 127 THEN c - 256 ELSE c

\* s[i] for a 0-based index i, reading the terminating NUL at i = Len(s).
CharAt(s, i) == IF i < Len(s) THEN s[i + 1] ELSE NUL

OptHelpShort == <<47, 63>>                              \* "/?"
OptHelpLong == <<47, 104, 101, 108, 112>>               \* "/help"
OptStringShort == <<47, 115>>                           \* "/s"
OptStringLong == <<47, 115, 116, 114, 105, 110, 103>>   \* "/string"

\* "#pragma once" << std::endl << std::endl
PragmaOnce == <<35, 112, 114, 97, 103, 109, 97, 32, 111, 110, 99, 101, 10, 10>>
\* "static const unsigned char "
HexDeclPrefix == <<115, 116, 97, 116, 105, 99, 32, 99, 111, 110, 115, 116, 32,
                   117, 110, 115, 105, 103, 110, 101, 100, 32, 99, 104, 97, 114, 32>>
\* "[] = {"
HexDeclSuffix == <<91, 93, 32, 61, 32, 123>>
\* ","
Comma == <<44>>
\* std::endl << "   "
LineBreakIndent == <<10, 32, 32, 32>>
\* " 0x"
HexPrefix == <<32, 48, 120>>
\* std::endl << "};"
HexFooter == <<10, 125, 59>>
\* "static const char "
StrDeclPrefix == <<115, 116, 97, 116, 105, 99, 32, 99, 111, 110, 115, 116, 32,
                   99, 104, 97, 114, 32>>
\* "[] = R\"("
StrDeclSuffix == <<91, 93, 32, 61, 32, 82, 34, 40>>
\* ")\";"
StrFooter == <<41, 34, 59>>

countPerLine == 8

ErrNotEnough == <<"ERROR: Not enough arguments", "    Try /? or /help">>
ErrTooMany == <<"ERROR: Too many arguments", "    Try /? or /help">>
ErrUnrecognized == <<"ERROR: Unrecognized option", "    Try /? or /help">>
ErrSameName == <<"Error: Input file and output file can't have the same name">>
ErrOpenInput == <<"Error: Couldn't open input file">>
ErrOpenOutput == <<"Error: Couldn't open output file">>
ErrInvalidName ==
    <<"Error: Invalid array name",
      "    Only the following ASCII characters are allowed:",
      "        '_'",
      "        '0' to '9'",
      "        'A' to 'Z'",
      "        'a' to 'z'",
      "    The first character can't be '0' to '9'.">>
\* PROJECT_NAME is a macro the build defines; it is kept by name.
HelpText ==
    <<"Usage:",
      "    ./PROJECT_NAME [option] <input_file> <output_file> <array_name>",
      "",
      "Description:",
      "    This program copies data from the input file into the output file.",
      "    If the output file does not exist, it is created; otherwise it is overwritten.",
      "    The output file is formatted as a C++ header file.",
      "    By default the data is stored into a static const char array as hex values.",
      "",
      "Options:",
      "    /s or /string           Store the data as a static const char* string instead.",
      "    /? or /help             Displays this help message.">>

---------------------------------------------------------------------------
(* Pure functions of the source.                                           *)

\* The index at which CompareStrings' while loop stops.
RECURSIVE CompareStop(_, _, _)
CompareStop(string1, string2, i) ==
    IF /\ CharAt(string1, i) # NUL
       /\ CharAt(string2, i) # NUL
       /\ CharAt(string1, i) = CharAt(string2, i)
    THEN CompareStop(string1, string2, i + 1)
    ELSE i

CompareStrings(string1, string2) ==
    LET i == CompareStop(string1, string2, 0)
    IN  IF CharAt(string1, i) = NUL /\ CharAt(string2, i) = NUL
        THEN 0
        ELSE SChar(CharAt(string1, i)) - SChar(CharAt(string2, i))

IsUpper(c) == c >= 65 /\ c <= 90
IsLower(c) == c >= 97 /\ c <= 122
IsDigit(c) == c >= 48 /\ c <= 57

\* The index at which ValidateArrayName's for loop stops: the first
\* character outside the allowed set, or the terminating NUL.
RECURSIVE NameScanStop(_, _)
NameScanStop(arrayName, i) ==
    LET character == CharAt(arrayName, i)
    IN  IF character = NUL THEN i
        ELSE IF ~(\/ character = Underscore
                  \/ IsDigit(character)
                  \/ IsUpper(character)
                  \/ IsLower(character))
             THEN i
             ELSE NameScanStop(arrayName, i + 1)

\* Faulty variant: the first-character test is left out.
ValidateArrayNameNoFirstCheck(arrayName) ==
    CharAt(arrayName, NameScanStop(arrayName, 0)) = NUL

ValidateArrayName(arrayName) ==
    LET first == CharAt(arrayName, 0)
        firstOk == \/ first = Underscore
                   \/ IsUpper(first)
                   \/ IsLower(first)
        bodyOk == CharAt(arrayName, NameScanStop(arrayName, 0)) = NUL
    IN  firstOk /\ bodyOk

\* operator<<(int) under std::hex: the digits of n, lowercase, no padding.
HexDigit(d) == IF d < 10 THEN 48 + d ELSE 87 + d
RECURSIVE HexDigits(_)
HexDigits(n) ==
    IF n < 16 THEN <<HexDigit(n)>>
    ELSE Append(HexDigits(n \div 16), HexDigit(n % 16))

\* std::setw(width) with std::setfill(fill): pad on the left up to width.
RECURSIVE PadLeft(_, _, _)
PadLeft(s, width, fill) ==
    IF Len(s) >= width THEN s ELSE PadLeft(<<fill>> \o s, width, fill)

\* " 0x" << std::setw(2) << std::setfill('0') << std::hex << int(byte)
FormatByte(byte) == HexPrefix \o PadLeft(HexDigits(byte), 2, 48)

\* Faulty variant: the comma follows every element.
HexElementTrailingComma(byte, cnt, first) ==
    (IF cnt % countPerLine = 0 THEN LineBreakIndent ELSE <<>>)
        \o FormatByte(byte) \o Comma

\* What one iteration of ProcessHex's loop writes.
HexElement(byte, cnt, first) ==
    (IF ~first THEN Comma ELSE <<>>)
        \o (IF cnt % countPerLine = 0 THEN LineBreakIndent ELSE <<>>)
        \o FormatByte(byte)

IsSpace(c) == c \in {9, 10, 11, 12, 13, 32}

RECURSIVE SkipSpaces(_, _)
SkipSpaces(content, pos) ==
    IF pos < Len(content) /\ IsSpace(content[pos + 1])
    THEN SkipSpaces(content, pos + 1)
    ELSE pos

\* Faulty variant: std::noskipws is left out, whitespace is skipped.
ExtractByteSkipWs(content, pos) ==
    LET p == SkipSpaces(content, pos)
    IN  IF p < Len(content)
        THEN [ok |-> TRUE, byte |-> content[p + 1], pos |-> p + 1]
        ELSE [ok |-> FALSE, byte |-> 0, pos |-> p]

\* inputFileStream >> std::noskipws >> byte: the next byte, or failure at
\* the end of the stream.
ExtractByte(content, pos) ==
    IF pos < Len(content)
    THEN [ok |-> TRUE, byte |-> content[pos + 1], pos |-> pos + 1]
    ELSE [ok |-> FALSE, byte |-> 0, pos |-> pos]

\* The offset of the first LF at or after pos, or Len(content).
RECURSIVE FindLF(_, _)
FindLF(content, pos) ==
    IF pos < Len(content) /\ content[pos + 1] # LF
    THEN FindLF(content, pos + 1)
    ELSE pos

\* Faulty variant: a CR before the LF is dropped with it.
GetLineStripCR(content, pos) ==
    LET e == FindLF(content, pos)
        raw == SubSeq(content, pos + 1, e)
    IN  IF pos >= Len(content)
        THEN [ok |-> FALSE, line |-> <<>>, pos |-> pos]
        ELSE [ok |-> TRUE,
              line |-> IF Len(raw) > 0 /\ raw[Len(raw)] = 13
                       THEN SubSeq(raw, 1, Len(raw) - 1) ELSE raw,
              pos |-> IF e < Len(content) THEN e + 1 ELSE e]

\* std::getline(inputFileStream, line): the characters up to the next LF,
\* which is extracted and dropped; fails when nothing is left to extract.
GetLine(content, pos) ==
    LET e == FindLF(content, pos)
    IN  IF pos >= Len(content)
        THEN [ok |-> FALSE, line |-> <<>>, pos |-> pos]
        ELSE [ok |-> TRUE,
              line |-> SubSeq(content, pos + 1, e),
              pos |-> IF e < Len(content) THEN e + 1 ELSE e]

---------------------------------------------------------------------------
(* main's dispatch.                                                        *)

Arg(k) == argv[k + 1]

\* Faulty variant: the '/' test precedes the string-mode test.
ClassifySlashFirst(av) ==
    LET ac == Len(av)
        a1 == av[2]
    IN  IF ac < 2 THEN [action |-> "error", msg |-> ErrNotEnough]
        ELSE IF CompareStrings(a1, OptHelpShort) = 0
                \/ CompareStrings(a1, OptHelpLong) = 0
        THEN IF ac > 2 THEN [action |-> "error", msg |-> ErrTooMany]
             ELSE [action |-> "help", msg |-> <<>>]
        ELSE IF CharAt(a1, 0) = Slash
        THEN [action |-> "error", msg |-> ErrUnrecognized]
        ELSE IF CompareStrings(a1, OptStringShort) = 0
                \/ CompareStrings(a1, OptStringLong) = 0
        THEN IF ac < 5 THEN [action |-> "error", msg |-> ErrNotEnough]
             ELSE IF ac > 5 THEN [action |-> "error", msg |-> ErrTooMany]
             ELSE [action |-> "string", msg |-> <<>>]
        ELSE IF ac < 4 THEN [action |-> "error", msg |-> ErrNotEnough]
        ELSE IF ac > 4 THEN [action |-> "error", msg |-> ErrTooMany]
        ELSE [action |-> "hex", msg |-> <<>>]

\* The terminal action main's chain of conditions selects.
Classify(av) ==
    LET ac == Len(av)
        a1 == av[2]
    IN  IF ac < 2 THEN [action |-> "error", msg |-> ErrNotEnough]
        ELSE IF CompareStrings(a1, OptHelpShort) = 0
                \/ CompareStrings(a1, OptHelpLong) = 0
        THEN IF ac > 2 THEN [action |-> "error", msg |-> ErrTooMany]
             ELSE [action |-> "help", msg |-> <<>>]
        ELSE IF CompareStrings(a1, OptStringShort) = 0
                \/ CompareStrings(a1, OptStringLong) = 0
        THEN IF ac < 5 THEN [action |-> "error", msg |-> ErrNotEnough]
             ELSE IF ac > 5 THEN [action |-> "error", msg |-> ErrTooMany]
             ELSE [action |-> "string", msg |-> <<>>]
        ELSE IF CharAt(a1, 0) = Slash
        THEN [action |-> "error", msg |-> ErrUnrecognized]
        ELSE IF ac < 4 THEN [action |-> "error", msg |-> ErrNotEnough]
        ELSE IF ac > 4 THEN [action |-> "error", msg |-> ErrTooMany]
        ELSE [action |-> "hex", msg |-> <<>>]

Main ==
    /\ pc = "main"
    /\ LET c == Classify(argv)
       IN  /\ stdout' = IF c.action = "help" THEN stdout \o HelpText ELSE stdout
           /\ stderr' = stderr \o c.msg
           /\ exitCode' = CASE c.action = "help" -> 0
                            [] c.action = "error" -> 1
                            [] OTHER -> exitCode
           /\ mode' = IF c.action \in {"hex", "string"} THEN c.action ELSE mode
           /\ pc' = IF c.action \in {"hex", "string"} THEN "compare" ELSE "done"
    /\ UNCHANGED <<argv, files, writable, files0, handles, inPos, count,
                   isFirstElement, trace>>

---------------------------------------------------------------------------
(* ProcessHex and ProcessString.  The two functions share every step but   *)
(* the declaration line, the loop and the footer; mode tells them apart.   *)

\* Faulty variant: string mode reads the path at hex mode's index.
inputFileNameUnshifted == Arg(1)

inputFileName == IF mode = "string" THEN Arg(2) ELSE Arg(1)
outputFileName == IF mode = "string" THEN Arg(3) ELSE Arg(2)
arrayName == IF mode = "string" THEN Arg(4) ELSE Arg(3)

FileExists(path) == path \in DOMAIN files /\ files[path] # NoFile

InHandle == [kind |-> "in", path |-> inputFileName]
OutHandle == [kind |-> "out", path |-> outputFileName]

\* close() of a stream, or its destructor: its handle is released.
CloseStream(hs, kind) == SelectSeq(hs, LAMBDA h : h.kind # kind)

\* outputFileStream << text
WriteOutput(text) == files' = [files EXCEPT ![outputFileName] = @ \o text]

\* Faulty variant: the streams are not closed on return.
EncoderReturnLeak(code) ==
    /\ exitCode' = code
    /\ pc' = "done"
    /\ handles' = handles

\* Faulty variant: every return reports success.
EncoderReturnZero(code) ==
    /\ exitCode' = 0
    /\ pc' = "done"
    /\ handles' = CloseStream(CloseStream(handles, "in"), "out")

\* return code: the destructors of inputFileStream and outputFileStream
\* run, and main returns the same code.
EncoderReturn(code) ==
    /\ exitCode' = code
    /\ pc' = "done"
    /\ handles' = CloseStream(CloseStream(handles, "in"), "out")

CompareNames ==
    /\ pc = "compare"
    /\ trace' = Append(trace, "compare")
    /\ IF CompareStrings(inputFileName, outputFileName) = 0
       THEN /\ stderr' = stderr \o ErrSameName
            /\ EncoderReturn(1)
       ELSE /\ pc' = "open_in"
            /\ UNCHANGED <<stderr, exitCode, handles>>
    /\ UNCHANGED <<argv, files, writable, files0, mode, inPos, count,
                   isFirstElement, stdout>>

\* Faulty variant: a failed open of the input does not return.
OpenInputNoReturn ==
    /\ pc = "open_in"
    /\ trace' = Append(trace, "open_in")
    /\ inPos' = 0
    /\ IF FileExists(inputFileName)
       THEN /\ handles' = Append(handles, InHandle)
            /\ UNCHANGED stderr
       ELSE /\ stderr' = stderr \o ErrOpenInput
            /\ UNCHANGED handles
    /\ pc' = "open_out"
    /\ UNCHANGED <<argv, files, writable, files0, mode, count,
                   isFirstElement, stdout, exitCode>>

\* std::ifstream inputFileStream(inputFileName, std::ios::binary)
OpenInput ==
    /\ pc = "open_in"
    /\ trace' = Append(trace, "open_in")
    /\ inPos' = 0
    /\ IF FileExists(inputFileName)
       THEN /\ handles' = Append(handles, InHandle)
            /\ pc' = "open_out"
            /\ UNCHANGED <<stderr, exitCode>>
       ELSE /\ stderr' = stderr \o ErrOpenInput
            /\ EncoderReturn(1)
    /\ UNCHANGED <<argv, files, writable, files0, mode, count,
                   isFirstElement, stdout>>

\* std::ofstream outputFileStream(outputFileName): creates or truncates.
OpenOutput ==
    /\ pc = "open_out"
    /\ trace' = Append(trace, "open_out")
    /\ IF outputFileName \in writable
       THEN /\ files' = [files EXCEPT ![outputFileName] = <<>>]
            /\ handles' = Append(handles, OutHandle)
            /\ pc' = "validate"
            /\ UNCHANGED <<stderr, exitCode>>
       ELSE /\ stderr' = stderr \o ErrOpenOutput
            /\ EncoderReturn(1)
            /\ UNCHANGED files
    /\ UNCHANGED <<argv, writable, files0, mode, inPos, count,
                   isFirstElement, stdout>>

\* Faulty variant: an invalid name is reported but the run goes on.
ValidateNoAbort ==
    /\ pc = "validate"
    /\ trace' = Append(trace, "validate")
    /\ stderr' = IF ValidateArrayName(arrayName) THEN stderr
                 ELSE stderr \o ErrInvalidName
    /\ exitCode' = IF ValidateArrayName(arrayName) THEN exitCode ELSE 1
    /\ pc' = "header"
    /\ UNCHANGED <<argv, files, writable, files0, mode, handles, inPos,
                   count, isFirstElement, stdout>>

\* if (!ValidateArrayName(arrayName)) return 1;
Validate ==
    /\ pc = "validate"
    /\ trace' = Append(trace, "validate")
    /\ IF ValidateArrayName(arrayName)
       THEN /\ pc' = "header"
            /\ UNCHANGED <<stderr, exitCode, handles>>
       ELSE /\ stderr' = stderr \o ErrInvalidName
            /\ EncoderReturn(1)
    /\ UNCHANGED <<argv, files, writable, files0, mode, inPos, count,
                   isFirstElement, stdout>>

\* The include guard and the declaration line; the loop's locals.
WriteHeader ==
    /\ pc = "header"
    /\ trace' = Append(trace, "write")
    /\ WriteOutput(PragmaOnce
                   \o (IF mode = "hex" THEN HexDeclPrefix ELSE StrDeclPrefix)
                   \o arrayName
                   \o (IF mode = "hex" THEN HexDeclSuffix ELSE StrDeclSuffix))
    /\ count' = 0
    /\ isFirstElement' = TRUE
    /\ pc' = "loop"
    /\ UNCHANGED <<argv, writable, files0, mode, handles, inPos, stdout,
                   stderr, exitCode>>

\* One iteration of ProcessHex's while loop.
HexLoopBody ==
    /\ pc = "loop"
    /\ mode = "hex"
    /\ LET r == ExtractByte(files[inputFileName], inPos)
       IN  /\ r.ok
           /\ inPos' = r.pos
           /\ WriteOutput(HexElement(r.byte, count, isFirstElement))
    /\ isFirstElement' = FALSE
    /\ count' = count + 1
    /\ trace' = Append(trace, "write")
    /\ UNCHANGED <<argv, writable, files0, pc, mode, handles, stdout,
                   stderr, exitCode>>

\* The extraction fails: the loop ends, the footer is written, both
\* streams are closed and ProcessHex returns 0.
HexFinish ==
    /\ pc = "loop"
    /\ mode = "hex"
    /\ LET r == ExtractByte(files[inputFileName], inPos)
       IN  /\ ~r.ok
           /\ inPos' = r.pos
    /\ WriteOutput(HexFooter)
    /\ trace' = Append(trace, "write")
    /\ EncoderReturn(0)
    /\ UNCHANGED <<argv, writable, files0, mode, count, isFirstElement,
                   stdout, stderr>>

\* One iteration of ProcessString's while loop.
StringLoopBody ==
    /\ pc = "loop"
    /\ mode = "string"
    /\ LET r == GetLine(files[inputFileName], inPos)
       IN  /\ r.ok
           /\ inPos' = r.pos
           /\ WriteOutput(r.line)
    /\ trace' = Append(trace, "write")
    /\ UNCHANGED <<argv, writable, files0, pc, mode, handles, count,
                   isFirstElement, stdout, stderr, exitCode>>

\* std::getline fails: the loop ends, the footer is written, both streams
\* are closed and ProcessString returns 0.
StringFinish ==
    /\ pc = "loop"
    /\ mode = "string"
    /\ LET r == GetLine(files[inputFileName], inPos)
       IN  /\ ~r.ok
           /\ inPos' = r.pos
    /\ WriteOutput(StrFooter)
    /\ trace' = Append(trace, "write")
    /\ EncoderReturn(0)
    /\ UNCHANGED <<argv, writable, files0, mode, count, isFirstElement,
                   stdout, stderr>>

---------------------------------------------------------------------------
(* The invocations checked: argument vectors and file systems.             *)

MaxRest == 4        \* arguments after the first one
MaxNameLen == 3     \* length of the array names enumerated
MaxShortLen == 3    \* length of the contents enumerated over ByteSamples
MaxLongLen == 17    \* length of the patterned contents
MaxOffset == 3      \* number of patterned contents per length, less one

SeqsUpTo(S, n) == UNION {[1..k -> S] : k \in 0..n}

ProgName == <<112>>     \* "p"
PathA == <<97>>         \* "a"
PathB == <<98>>         \* "b"
PathC == <<99>>         \* "c", a file that does not exist
GoodName == <<110>>     \* "n"
BadName == <<49>>       \* "1"
FsPaths == {PathA, PathB}

FirstTokens ==
    { OptHelpShort, OptHelpLong, OptStringShort, OptStringLong,
      <<47, 120>>,                              \* "/x"
      <<47>>,                                   \* "/"
      <<47, 83>>,                               \* "/S"
      <<47, 72, 69, 76, 80>>,                   \* "/HELP"
      <<47, 63, 120>>,                          \* "/?x"
      <<47, 104, 101>>,                         \* "/he"
      <<47, 115, 116>>,                         \* "/st"
      <<47, 115, 116, 114, 105, 110, 103, 115>>,\* "/strings"
      <<>>,                                     \* ""
      <<63>>,                                   \* "?"
      <<115>>,                                  \* "s"
      <<97, 47, 115>>,                          \* "a/s"
      PathA, PathB }
RestTokens == {PathA, PathB, GoodName, BadName}

ArgVectors ==
    {<<ProgName>>}
        \cup {<<ProgName, f>> \o r : f \in FirstTokens,
                                     r \in SeqsUpTo(RestTokens, MaxRest)}

EncoderArgs(m, i, o, n) ==
    IF m = "string" THEN <<ProgName, OptStringShort, i, o, n>>
    ELSE <<ProgName, i, o, n>>

SampleContent == <<0, 255, 10>>
TextContent == <<97, 98, 99, 13, 10, 100, 101, 102, 10>>   \* "abc\r\ndef\n"
OldContent == <<111, 108, 100>>                            \* "old"
DefaultFiles == [p \in FsPaths |-> IF p = PathA THEN TextContent ELSE OldContent]

FsContents == {<<>>, SampleContent, OldContent}

NameChars == {32, 45, 47, 48, 57, 58, 64, 65, 90, 91, 95, 96, 97, 122, 123, 200}
ArrayNames == SeqsUpTo(NameChars, MaxNameLen)

ByteSamples == {0, 10, 13, 32, 97, 255}
Pattern(n, off) == [i \in 1..n |-> (85 * off + 29 * i) % 256]
Contents ==
    SeqsUpTo(ByteSamples, MaxShortLen)
        \cup {<<b>> : b \in 0..255}
        \cup {Pattern(n, off) : n \in 0..MaxLongLen, off \in 0..MaxOffset}
        \cup {TextContent, <<97, 98, 99, 10, 100, 101, 102, 10>>}

InitArgs ==
    /\ argv \in ArgVectors
    /\ files = DefaultFiles
    /\ writable = FsPaths

InitFs ==
    /\ argv \in {EncoderArgs(m, i, o, n) : m \in {"hex", "string"},
                     i \in {PathA, PathB, PathC}, o \in {PathA, PathB, PathC},
                     n \in {GoodName, BadName}}
    /\ files \in [FsPaths -> FsContents \cup {NoFile}]
    /\ writable \in SUBSET FsPaths

InitNames ==
    /\ argv \in {EncoderArgs(m, PathA, PathB, n) : m \in {"hex", "string"},
                                                   n \in ArrayNames}
    /\ files = DefaultFiles
    /\ writable = FsPaths

InitContents ==
    /\ argv \in {EncoderArgs(m, PathA, PathB, GoodName) : m \in {"hex", "string"}}
    /\ \E c \in Contents : files = [p \in FsPaths |-> IF p = PathA THEN c ELSE OldContent]
    /\ writable = FsPaths

Init ==
    /\ \/ InitArgs
       \/ InitFs
       \/ InitNames
       \/ InitContents
    /\ files0 = files
    /\ pc = "main"
    /\ mode = "none"
    /\ handles = <<>>
    /\ inPos = 0
    /\ count = 0
    /\ isFirstElement = TRUE
    /\ stdout = <<>>
    /\ stderr = <<>>
    /\ exitCode = Running
    /\ trace = <<>>

Next ==
    \/ Main
    \/ CompareNames
    \/ OpenInput
    \/ OpenOutput
    \/ Validate
    \/ WriteHeader
    \/ HexLoopBody
    \/ HexFinish
    \/ StringLoopBody
    \/ StringFinish

Spec == Init /\ [][Next]_vars

---------------------------------------------------------------------------
(* Vocabulary of the properties: the invocation as the user wrote it, and  *)
(* the grammar and formats as the specification words them.                *)

Done == pc = "done"
Encoding == mode \in {"hex", "string"}
Succeeded == Done /\ Encoding /\ exitCode = 0

\* The arguments without the program name.
Args == Tail(argv)
InArg == IF mode = "string" THEN argv[3] ELSE argv[2]
OutArg == IF mode = "string" THEN argv[4] ELSE argv[3]
NameArg == IF mode = "string" THEN argv[5] ELSE argv[4]

Letters == (65..90) \cup (97..122)
Digits == 48..57
\* [A-Za-z_][A-Za-z0-9_]*
IsIdentifier(s) ==
    /\ Len(s) >= 1
    /\ s[1] \in Letters \cup {95}
    /\ \A i \in 1..Len(s) : s[i] \in Letters \cup Digits \cup {95}

Existed(path) == path \in DOMAIN files0 /\ files0[path] # NoFile
Stepped(k, step) == Len(trace) >= k /\ trace[k] = step
Wrote == \E k \in 1..Len(trace) : trace[k] = "write"

IsPrefixOf(p, s) == Len(p) <= Len(s) /\ SubSeq(s, 1, Len(p)) = p
IsSuffixOf(p, s) == Len(p) <= Len(s) /\ SubSeq(s, Len(s) - Len(p) + 1, Len(s)) = p
Occurrences(s, c) == Cardinality({i \in 1..Len(s) : s[i] = c})

Header == PragmaOnce
              \o (IF mode = "hex" THEN HexDeclPrefix ELSE StrDeclPrefix)
              \o NameArg
              \o (IF mode = "hex" THEN HexDeclSuffix ELSE StrDeclSuffix)
Footer == IF mode = "hex" THEN HexFooter ELSE StrFooter
Output == files[OutArg]
Input == files0[InArg]
\* What stands between the declaration line and the footer.
Payload == SubSeq(Output, Len(Header) + 1, Len(Output) - Len(Footer))
Framed == IsPrefixOf(Header, Output) /\ IsSuffixOf(Footer, Output)
              /\ Len(Output) >= Len(Header) + Len(Footer)

---------------------------------------------------------------------------
(* Properties.                                                             *)

\* The dispatch rules of the specification, in priority order, over the
\* arguments without the program name.
Rule(args) ==
    LET n == Len(args)
    IN  IF n = 0 THEN "not_enough"
        ELSE IF args[1] \in {OptHelpShort, OptHelpLong}
        THEN IF n = 1 THEN "help" ELSE "too_many"
        ELSE IF args[1] \in {OptStringShort, OptStringLong}
        THEN IF n - 1 = 3 THEN "string"
             ELSE IF n - 1 < 3 THEN "not_enough" ELSE "too_many"
        ELSE IF Len(args[1]) > 0 /\ args[1][1] = 47 THEN "unrecognized"
        ELSE IF n = 3 THEN "hex"
        ELSE IF n < 3 THEN "not_enough" ELSE "too_many"

\* What main did, read off the state it left.
Selected ==
    CASE mode = "hex" -> "hex"
      [] mode = "string" -> "string"
      [] mode = "none" /\ exitCode = 0 /\ stdout = HelpText /\ stderr = <<>> -> "help"
      [] mode = "none" /\ exitCode = 1 /\ stdout = <<>> /\ stderr = ErrNotEnough
            -> "not_enough"
      [] mode = "none" /\ exitCode = 1 /\ stdout = <<>> /\ stderr = ErrTooMany
            -> "too_many"
      [] mode = "none" /\ exitCode = 1 /\ stdout = <<>> /\ stderr = ErrUnrecognized
            -> "unrecognized"
      [] OTHER -> "none"

\* C1: for every argument list, main selects exactly the terminal action
\* the five rules give, in priority order: no arguments, help (alone, or
\* too many), string mode (with exactly three further arguments), any other
\* option starting with '/', and hex mode (exactly three arguments); an
\* error or the help ends the process at once, an encoder is entered with
\* nothing written yet.
C1_Dispatch ==
    pc # "main" =>
        /\ Selected = Rule(Args)
        /\ ~Encoding => Done
        /\ pc = "compare" => stdout = <<>> /\ stderr = <<>> /\ exitCode = Running

\* An unrecognized option followed by three arguments is refused, whatever
\* the argument count.
C1_Witness ==
    /\ Done
    /\ Len(Args) = 4
    /\ Args[1] = <<47, 120>>
    /\ stderr = ErrUnrecognized
    /\ exitCode = 1

HexValue(c) == IF c \in 48..57 THEN c - 48 ELSE c - 87
IsLowerHexDigit(c) == c \in (48..57) \cup (97..102)
IsSeparator(c) == c \in {44, 32, 10}

\* The bytes a reader of the array gets: separators skipped, every token
\* "0x" and exactly two lowercase hex digits; <<-1>> marks a malformed token.
RECURSIVE DecodeHex(_, _)
DecodeHex(s, i) ==
    IF i > Len(s) THEN <<>>
    ELSE IF IsSeparator(s[i]) THEN DecodeHex(s, i + 1)
    ELSE IF /\ i + 3 <= Len(s)
            /\ s[i] = 48
            /\ s[i + 1] = 120
            /\ IsLowerHexDigit(s[i + 2])
            /\ IsLowerHexDigit(s[i + 3])
            /\ (i + 4 <= Len(s) => IsSeparator(s[i + 4]))
         THEN <<16 * HexValue(s[i + 2]) + HexValue(s[i + 3])>> \o DecodeHex(s, i + 4)
         ELSE <<-1>>

\* C2: hex round trip: when ProcessHex succeeds, the "0xNN" tokens of the
\* array, parsed in order, are exactly the bytes of the input file (same
\* length, same order, whitespace and zero bytes included), each written as
\* two zero-padded lowercase hex digits.
C2_HexRoundTrip ==
    (Succeeded /\ mode = "hex") =>
        /\ Framed
        /\ DecodeHex(Payload, 1) = Input

\* A nine-byte input holding whitespace and a zero byte has been encoded.
C2_Witness ==
    /\ Succeeded
    /\ mode = "hex"
    /\ Len(Input) >= 9
    /\ \E i \in 1..Len(Input) : Input[i] < 16
    /\ DecodeHex(Payload, 1) = Input

\* C3: ValidateArrayName accepts exactly the strings of the grammar
\* [A-Za-z_][A-Za-z0-9_]*: once the validation step has run, the run was
\* stopped with the name diagnostic if and only if the name is not such an
\* identifier (the empty name, a leading digit, a character outside the
\* set at any position).
C3_NameGrammar ==
    Stepped(4, "validate") =>
        /\ IsIdentifier(NameArg) <=> stderr = <<>>
        /\ ~IsIdentifier(NameArg) <=> (Done /\ exitCode = 1 /\ stderr = ErrInvalidName)

\* A name with a leading digit and an otherwise allowed body was rejected.
C3_Witness ==
    /\ Stepped(4, "validate")
    /\ NameArg = <<57, 95, 97>>
    /\ Done
    /\ stderr = ErrInvalidName

Diagnostics == {ErrNotEnough, ErrTooMany, ErrUnrecognized, ErrSameName,
                ErrOpenInput, ErrOpenOutput, ErrInvalidName}
HelpShown == mode = "none" /\ stdout = HelpText
\* The encoder consumed its whole input and wrote header, body and footer.
FullOutputWritten ==
    /\ Encoding
    /\ Stepped(Len(trace), "write")
    /\ OutArg \in DOMAIN files
    /\ Framed
    /\ inPos = Len(Input)

\* C4: the exit code is 0 exactly when the help was displayed or an encoder
\* ran to completion and wrote its full output; every failure is terminal
\* (nothing runs after its diagnostic), exits with 1, has its diagnostic on
\* the error stream and leaves standard output empty; standard output
\* carries the help text only.
C4_ExitCodes ==
    /\ stdout \in {<<>>, HelpText}
    /\ stderr = <<>> \/ stderr \in Diagnostics
    /\ stderr # <<>> => Done /\ exitCode = 1
    /\ Done =>
        /\ exitCode \in {0, 1}
        /\ exitCode = 0 <=> (HelpShown \/ FullOutputWritten)
        /\ exitCode = 1 => stderr \in Diagnostics /\ stdout = <<>>
    /\ ~Done => exitCode = Running

\* A run that could not open its output file ended with exit code 1.
C4_Witness ==
    /\ Done
    /\ exitCode = 1
    /\ stderr = ErrOpenOutput
    /\ stdout = <<>>

SamePathArgs == Encoding /\ InArg = OutArg

\* C5: in both modes, when the input and output path arguments are the
\* same string, the encoder fails with exit code 1 and the same-name
\* diagnostic before opening any file: no handle is ever opened and no file
\* is created, truncated or changed, whatever the array name and whether or
\* not the files exist.
C5_SameName ==
    SamePathArgs =>
        /\ handles = <<>>
        /\ files = files0
        /\ \A k \in 1..Len(trace) : trace[k] = "compare"
        /\ Done => exitCode = 1 /\ stderr = ErrSameName /\ trace = <<"compare">>

\* String mode, an existing file given as input and as output, an invalid
\* array name: the run ended on the same-name diagnostic.
C5_Witness ==
    /\ Done
    /\ mode = "string"
    /\ SamePathArgs
    /\ Existed(InArg)
    /\ ~IsIdentifier(NameArg)
    /\ stderr = ErrSameName

\* The input with every LF byte removed.
WithoutLF(c) == SelectSeq(c, LAMBDA b : b # 10)
\* The input with every line terminator, LF or CR LF, removed.
RECURSIVE WithoutTerminators(_)
WithoutTerminators(c) ==
    IF c = <<>> THEN <<>>
    ELSE IF c[1] = 10 THEN WithoutTerminators(Tail(c))
    ELSE IF c[1] = 13 /\ Len(c) >= 2 /\ c[2] = 10 THEN WithoutTerminators(Tail(Tail(c)))
    ELSE <<c[1]>> \o WithoutTerminators(Tail(c))

\* C6 as stated: the payload between R"( and )"; is the input with every
\* line terminator, LF or CR LF, removed.
C6_TerminatorsStripped ==
    (Succeeded /\ mode = "string") =>
        /\ Framed
        /\ Payload = WithoutTerminators(Input)

\* C6 as amended: the payload between R"( and )"; is the input with every LF
\* byte removed and every other byte, a CR before an LF included, kept in
\* order; the payload holds no LF.
C6_LFStripped ==
    (Succeeded /\ mode = "string") =>
        /\ Framed
        /\ Payload = WithoutLF(Input)
        /\ Occurrences(Payload, 10) = 0

\* A two-line input with a CR LF and an LF terminator has been encoded.
C6_Witness ==
    /\ Succeeded
    /\ mode = "string"
    /\ Input = TextContent
    /\ Payload = <<97, 98, 99, 13, 100, 101, 102>>

\* The number of elements ("0x" tokens) that start before index i of s.
ElementsBefore(s, i) == Cardinality({j \in 1..(i - 1) : s[j] = 120})
\* The indices of s holding character c.
Positions(s, c) == {i \in 1..Len(s) : s[i] = c}

\* C7: for an input of n bytes the array body holds n elements and exactly
\* max(n-1, 0) commas, one after each element but the last; a line break
\* followed by the indent stands exactly before the elements at positions
\* 0, 8, 16, ..., so no line holds more than 8 elements; the body is
\* followed by a line break and "};"; for n = 0 the body is empty.
C7_Separators ==
    (Succeeded /\ mode = "hex") =>
        LET n == Len(Input)
            body == Payload
            commas == Positions(body, 44)
            breaks == Positions(body, 10)
        IN  /\ Framed
            /\ Occurrences(body, 120) = n
            /\ Cardinality(commas) = IF n = 0 THEN 0 ELSE n - 1
            /\ {ElementsBefore(body, i) : i \in commas} = 1..(n - 1)
            /\ body # <<>> => body[Len(body)] # 44
            /\ {ElementsBefore(body, i) : i \in breaks}
                   = {k \in 0..(n - 1) : k % 8 = 0}
            /\ Cardinality(breaks) = (n + 7) \div 8
            /\ \A i \in breaks : SubSeq(body, i, i + 6) = <<10, 32, 32, 32, 32, 48, 120>>
            /\ n = 0 => body = <<>> /\ Output = Header \o <<10, 125, 59>>

\* Seventeen bytes were written on three lines, with sixteen commas.
C7_Witness ==
    /\ Succeeded
    /\ mode = "hex"
    /\ Len(Input) = 17
    /\ Occurrences(Payload, 10) = 3
    /\ Occurrences(Payload, 44) = 16

\* C8: in both encoders the array name is validated before any byte of
\* content is written: content is only ever written after a validation
\* that accepted the name, and when the name is invalid (the paths differ
\* and both files opened) the run exits with 1 and the name diagnostic,
\* writes nothing, not even "#pragma once", and leaves the output file
\* truncated to empty, so its previous content is lost.
C8_ValidateBeforeWrite ==
    /\ Wrote => Stepped(4, "validate") /\ IsIdentifier(NameArg)
    /\ (Encoding /\ OutArg \in DOMAIN files /\ Output \notin {files0[OutArg], <<>>})
           => Stepped(4, "validate") /\ IsIdentifier(NameArg)
    /\ (Stepped(4, "validate") /\ ~IsIdentifier(NameArg)) =>
           /\ Done
           /\ exitCode = 1
           /\ stderr = ErrInvalidName
           /\ ~Wrote
           /\ Output = <<>>

\* An invalid name was refused after the output file, which held "old",
\* had been truncated.
C8_Witness ==
    /\ Done
    /\ Stepped(4, "validate")
    /\ ~IsIdentifier(NameArg)
    /\ files0[OutArg] = OldContent
    /\ Output = <<>>
    /\ stderr = ErrInvalidName

HandlesOf(kind) == {i \in 1..Len(handles) : handles[i].kind = kind}

\* C9: at most one input handle and one output handle are open at any
\* moment, each on the path of its argument, and when the encoder has
\* returned, on any path (same name, input or output not opened, invalid
\* name, success), every handle it opened is closed.
C9_Handles ==
    /\ Cardinality(HandlesOf("in")) <= 1
    /\ Cardinality(HandlesOf("out")) <= 1
    /\ \A i \in 1..Len(handles) :
           handles[i].path = (IF handles[i].kind = "in" THEN InArg ELSE OutArg)
    /\ pc \in {"validate", "header", "loop"} => Len(handles) = 2
    /\ Done => handles = <<>>

\* The output file could not be opened after the input file had been: the
\* function returned with the input handle closed.
C9_Witness ==
    /\ Done
    /\ trace = <<"compare", "open_in", "open_out">>
    /\ Existed(InArg)
    /\ stderr = ErrOpenOutput
    /\ handles = <<>>

StepAt(k) ==
    CASE k = 1 -> "compare"
      [] k = 2 -> "open_in"
      [] k = 3 -> "open_out"
      [] k = 4 -> "validate"
      [] OTHER -> "write"

\* C10: in both modes the steps run in the order same-name check, open
\* input, open or truncate output, validate name, write content; when the
\* input file cannot be opened the run exits with 1 and no file is created
\* or truncated; a file is modified only when the paths differ and the
\* input was opened, and then only the output file.
C10_StepOrder ==
    /\ \A k \in 1..Len(trace) : trace[k] = StepAt(k)
    /\ (Encoding /\ ~Existed(InArg)) =>
           /\ files = files0
           /\ Len(trace) <= 2
           /\ Stepped(2, "open_in") => Done /\ exitCode = 1 /\ stderr = ErrOpenInput
    /\ files # files0 =>
           /\ Encoding
           /\ InArg # OutArg
           /\ Existed(InArg)
           /\ Stepped(3, "open_out")
           /\ \A p \in DOMAIN files : p # OutArg => files[p] = files0[p]

\* The input file does not exist, the output file exists and is writable:
\* the run failed on the input and the output file kept its content.
C10_Witness ==
    /\ Done
    /\ Encoding
    /\ ~Existed(InArg)
    /\ OutArg \in writable
    /\ files0[OutArg] = OldContent
    /\ files[OutArg] = OldContent
    /\ stderr = ErrOpenInput

====
